---- MODULE Spec2Model ----
(***************************************************************************)
(* SplitPayPDF: the page classification and naming engine                  *)
(* (src/SplitPayPDF.py).  A string is a sequence of characters, a          *)
(* character is a one-character TLA+ string (non-ASCII characters are      *)
(* written by code point, "U0192").  A path is a sequence of components,   *)
(* each component a string.                                                *)
(***************************************************************************)
EXTENDS Integers, Sequences, FiniteSets, TLC

\* ------------------------------------------------------------ bounds

\* longest input document, in pages
MaxPages == 2
\* number of calls of split_pdf_full in one behaviour
MaxRuns == 2
\* highest collision suffix a file may carry before an allocation (SpecPath)
MaxSuffix == 2
\* highest character position a line token names (SpecNames)
MaxPos == 5
\* number of clicks on the Run button in one behaviour (SpecGui)
MaxThreads == 2

\* ------------------------------------------------------------ characters

LowerSeq ==
  <<"a","b","c","d","e","f","g","h","i","j","k","l","m",
    "n","o","p","q","r","s","t","u","v","w","x","y","z">>

UpperSeq ==
  <<"A","B","C","D","E","F","G","H","I","J","K","L","M",
    "N","O","P","Q","R","S","T","U","V","W","X","Y","Z">>

DigitSeq == <<"0","1","2","3","4","5","6","7","8","9">>

Range(s) == {s[i] : i \in 1..Len(s)}

\* the letters of the substitution table of normalize_folder_name that are
\* word characters, and their lower-case forms
NonAsciiWord ==
  {"U0192","U00E7","U00E1","U00E6","U00EB","U00E5","U00DC","U03A9","U00EA",
   "U00FC","U03C9"}

DigitChars == Range(DigitSeq)

UpperChars == Range(UpperSeq)

WordChars ==
  Range(LowerSeq) \cup UpperChars \cup DigitChars \cup {"_"} \cup NonAsciiWord

SpaceChars == {" ", "\t", "\n", "\r"}

LowerOf ==
  [c \in UpperChars \cup {"U00DC", "U03A9"} |->
     IF c = "U00DC" THEN "U00FC"
     ELSE IF c = "U03A9" THEN "U03C9"
     ELSE LowerSeq[CHOOSE i \in 1..26 : UpperSeq[i] = c]]

\* \d of the regular expressions
IsDigit(c) == c \in DigitChars

\* \w of the regular expressions
IsWord(c) == c \in WordChars

\* \s of the regular expressions, and what str.strip() removes
IsSpace(c) == c \in SpaceChars

\* str.lower() on one character
Lower(c) == IF c \in DOMAIN LowerOf THEN LowerOf[c] ELSE c

LowerStr(s) == [i \in 1..Len(s) |-> Lower(s[i])]

\* ------------------------------------------------------------ str helpers

Min(a, b) == IF a < b THEN a ELSE b

\* text[start:stop] for 0 <= start, 0 <= stop
Slice(text, start, stop) ==
  LET hi == Min(stop, Len(text))
  IN IF start >= hi THEN <<>> ELSE SubSeq(text, start + 1, hi)

\* text[start:]
SliceFrom(text, start) == Slice(text, start, Len(text))

RECURSIVE LStrip(_)
LStrip(s) == IF s # <<>> /\ IsSpace(Head(s)) THEN LStrip(Tail(s)) ELSE s

RECURSIVE RStrip(_)
RStrip(s) ==
  IF s # <<>> /\ IsSpace(s[Len(s)]) THEN RStrip(SubSeq(s, 1, Len(s) - 1)) ELSE s

\* str.strip()
Strip(s) == RStrip(LStrip(s))

\* whether string s holds the literal lit at position i (1-based)
HasAt(s, i, lit) ==
  /\ i >= 1
  /\ i + Len(lit) - 1 <= Len(s)
  /\ SubSeq(s, i, i + Len(lit) - 1) = lit

\* str.endswith
EndsWith(s, suffix) == HasAt(s, Len(s) - Len(suffix) + 1, suffix)

\* str.replace(key, val): non-overlapping occurrences, left to right
RECURSIVE ReplaceFrom(_, _, _, _)
ReplaceFrom(s, i, key, val) ==
  IF i > Len(s) THEN <<>>
  ELSE IF HasAt(s, i, key) THEN val \o ReplaceFrom(s, i + Len(key), key, val)
  ELSE <<s[i]>> \o ReplaceFrom(s, i + 1, key, val)

Replace(s, key, val) == ReplaceFrom(s, 1, key, val)

\* re.sub(r"[^\w\s-]", "", s): the characters a file name keeps
RECURSIVE KeepSanitized(_)
KeepSanitized(s) ==
  IF s = <<>> THEN <<>>
  ELSE (IF IsWord(Head(s)) \/ IsSpace(Head(s)) \/ Head(s) = "-"
          THEN <<Head(s)>> ELSE <<>>) \o KeepSanitized(Tail(s))

\* re.sub(r"[^\w]", "", s): the characters a folder name keeps
RECURSIVE KeepWord(_)
KeepWord(s) ==
  IF s = <<>> THEN <<>>
  ELSE (IF IsWord(Head(s)) THEN <<Head(s)>> ELSE <<>>) \o KeepWord(Tail(s))

\* int() of a string of decimal digits
RECURSIVE IntOf(_)
IntOf(ds) ==
  IF ds = <<>> THEN 0
  ELSE IntOf(SubSeq(ds, 1, Len(ds) - 1)) * 10
         + ((CHOOSE k \in 1..10 : DigitSeq[k] = ds[Len(ds)]) - 1)

\* str() of a non-negative integer, as the f-strings format it
RECURSIVE IntStr(_)
IntStr(n) ==
  IF n < 10 THEN <<DigitSeq[n + 1]>>
  ELSE IntStr(n \div 10) \o <<DigitSeq[(n % 10) + 1]>>

\* str.splitlines(): "\n", "\r" and "\r\n" end a line; no empty last line
RECURSIVE SplitFrom(_, _, _)
SplitFrom(t, i, cur) ==
  IF i > Len(t) THEN (IF cur = <<>> THEN <<>> ELSE <<cur>>)
  ELSE IF t[i] = "\r" /\ i < Len(t) /\ t[i + 1] = "\n"
    THEN <<cur>> \o SplitFrom(t, i + 2, <<>>)
  ELSE IF t[i] \in {"\n", "\r"} THEN <<cur>> \o SplitFrom(t, i + 1, <<>>)
  ELSE SplitFrom(t, i + 1, Append(cur, t[i]))

splitlines(text) == SplitFrom(text, 1, <<>>)

\* index of the last occurrence of character c in s, 0 when there is none
RFind(s, c) ==
  IF \E i \in 1..Len(s) : s[i] = c
    THEN CHOOSE i \in 1..Len(s) : s[i] = c /\ \A j \in (i + 1)..Len(s) : s[j] # c
    ELSE 0

\* os.path.splitext: the extension starts at the last dot of the last path
\* component, unless only dots precede it in that component
splitext(p) ==
  LET sepIndex == RFind(p, "/")
      dotIndex == RFind(p, ".")
  IN IF /\ dotIndex > sepIndex
        /\ \E k \in (sepIndex + 1)..(dotIndex - 1) : p[k] # "."
       THEN [root |-> SubSeq(p, 1, dotIndex - 1),
             ext |-> SubSeq(p, dotIndex, Len(p))]
       ELSE [root |-> p, ext |-> <<>>]

\* ------------------------------------------------------------ utilities

sanitize_filename(name) ==
  Replace(Strip(KeepSanitized(name)), <<" ">>, <<"_">>)

\* the substitution table, in the order the dictionary is written
repl ==
  << <<<<"U0192","U00E7">>, <<"c">>>>,
     <<<<"U0192","U00E1">>, <<"c">>>>,
     <<<<"U2248","U00E6">>, <<"z">>>>,
     <<<<"U2248","U00B0">>, <<"s">>>>,
     <<<<"U0192","U00EB">>, <<"d">>>>,
     <<<<"U0192","U00E5">>, <<"c">>>>,
     <<<<"U0192","U00DC">>, <<"c">>>>,
     <<<<"U2248","U03A9">>, <<"z">>>>,
     <<<<"U2248","U2020">>, <<"s">>>>,
     <<<<"U0192","U00EA">>, <<"d">>>> >>

RECURSIVE ApplyRepl(_, _)
ApplyRepl(name, k) ==
  IF k > Len(repl) THEN name
  ELSE ApplyRepl(Replace(name, repl[k][1], repl[k][2]), k + 1)

normalize_folder_name(name) ==
  LowerStr(KeepWord(ApplyRepl(name, 1)))

\* ------------------------------------------------------------ path allocation

\* str.join of the f-string f"{root}_{counter}{ext}"
Suffixed(root, counter, ext) == root \o <<"_">> \o IntStr(counter) \o ext

\* mutant of ProbePath: the counter advances by two
RECURSIVE ProbePath_ByTwo(_, _, _, _, _)
ProbePath_ByTwo(existing, dir, root, ext, counter) ==
  LET candidate == Append(dir, Suffixed(root, counter, ext))
  IN IF candidate \notin existing THEN candidate
     ELSE ProbePath_ByTwo(existing, dir, root, ext, counter + 2)

\* the while loop of get_unique_path: the first candidate that does not exist
RECURSIVE ProbePath(_, _, _, _, _)
ProbePath(existing, dir, root, ext, counter) ==
  LET candidate == Append(dir, Suffixed(root, counter, ext))
  IN IF candidate \notin existing THEN candidate
     ELSE ProbePath(existing, dir, root, ext, counter + 1)

\* mutant of get_unique_path: the _1 name is returned without a look at it
get_unique_path_Unprobed(existing, base_path) ==
  IF base_path \notin existing THEN base_path
  ELSE Append(SubSeq(base_path, 1, Len(base_path) - 1),
              Suffixed(splitext(base_path[Len(base_path)]).root, 1,
                       splitext(base_path[Len(base_path)]).ext))

\* get_unique_path(base_path) against the set of existing paths.  splitext
\* of the joined path splits its last component, the only one it can split.
get_unique_path(existing, base_path) ==
  IF base_path \notin existing THEN base_path
  ELSE LET dir == SubSeq(base_path, 1, Len(base_path) - 1)
           se == splitext(base_path[Len(base_path)])
       IN ProbePath(existing, dir, se.root, se.ext, 1)

\* the while loop of split_pdf_full that suffixes final_name
RECURSIVE ProbeName(_, _, _, _, _, _)
ProbeName(existing, target_dir, final, base, ext, counter) ==
  IF Append(target_dir, final) \in existing
    THEN ProbeName(existing, target_dir, Suffixed(base, counter, ext),
                   base, ext, counter + 1)
    ELSE final

\* mutant of UniqueNameIn: the classified name is used as it is
UniqueNameIn_Unprobed(existing, target_dir, filename) == filename

\* final_name of a Resolved page in a live run
UniqueNameIn(existing, target_dir, filename) ==
  LET se == splitext(filename)
  IN ProbeName(existing, target_dir, filename, se.root, se.ext, 1)

\* ------------------------------------------------------------ pattern builder

CharAt(s, i) == IF i >= 1 /\ i <= Len(s) THEN s[i] ELSE ""

RECURSIVE DigitsEnd(_, _)
DigitsEnd(p, i) ==
  IF i <= Len(p) /\ IsDigit(p[i]) THEN DigitsEnd(p, i + 1) ELSE i

RECURSIVE SpacesEnd(_, _)
SpacesEnd(p, i) ==
  IF i <= Len(p) /\ IsSpace(p[i]) THEN SpacesEnd(p, i + 1) ELSE i

NoMatch == [ok |-> FALSE, line_no |-> 0, start_pos |-> -1, end_pos |-> -1, next |-> 0]

\* a match of LINE_TOKEN_RE: the digits of group 1 are p[b..c-1]; with a
\* parenthesis, those of group 2 are p[c+1..d-1]; with a slash, those of
\* group 3 are p[d+1..e-1].  An absent group is -1.
TokenMatch(p, b, c, d, e, paren, slash) ==
  [ok |-> TRUE,
   line_no |-> IntOf(SubSeq(p, b, c - 1)),
   start_pos |-> IF paren THEN IntOf(SubSeq(p, c + 1, d - 1)) ELSE -1,
   end_pos |-> IF slash THEN IntOf(SubSeq(p, d + 1, e - 1)) ELSE -1,
   next |-> IF paren THEN e + 2 ELSE c + 1]

\* (?:/(\d+))?\)\] after the digits of group 2, which end before d
TokenEnd(p, b, c, d, e) ==
  IF CharAt(p, d) = "/"
    THEN IF e > d + 1 /\ CharAt(p, e) = ")" /\ CharAt(p, e + 1) = "]"
           THEN TokenMatch(p, b, c, d, e, TRUE, TRUE) ELSE NoMatch
    ELSE IF CharAt(p, d) = ")" /\ CharAt(p, d + 1) = "]"
           THEN TokenMatch(p, b, c, d, d, TRUE, FALSE) ELSE NoMatch

\* (?:\((\d+)...)?\] after the digits of group 1, which end before c
TokenGroup(p, b, c, d) ==
  IF CharAt(p, c) = "]" THEN TokenMatch(p, b, c, c, c, FALSE, FALSE)
  ELSE IF CharAt(p, c) = "(" /\ d > c + 1
    THEN TokenEnd(p, b, c, d, DigitsEnd(p, d + 1))
  ELSE NoMatch

\* (\d+) after the white space, which ends before b
TokenLine(p, b, c) ==
  IF c = b THEN NoMatch ELSE TokenGroup(p, b, c, DigitsEnd(p, c + 1))

\* \s+ after "[LINE", which ends before a
TokenSpace(p, a, b) ==
  IF b = a THEN NoMatch ELSE TokenLine(p, b, DigitsEnd(p, b))

\* LINE_TOKEN_RE matched at position i of pattern p:
\*   \[LINE\s+(\d+)(?:\((\d+)(?:/(\d+))?\))?\]
LINE_TOKEN_RE(p, i) ==
  IF HasAt(p, i, <<"[","L","I","N","E">>)
    THEN TokenSpace(p, i + 5, SpacesEnd(p, i + 5))
    ELSE NoMatch

Max(a, b) == IF a > b THEN a ELSE b

\* mutant of Sliced: the end position is taken as exclusive
Sliced_EndExclusive(text, m, start) ==
  IF m.start_pos # -1
    THEN IF m.end_pos # -1 THEN Slice(text, start, m.end_pos - 1)
         ELSE SliceFrom(text, start)
    ELSE text

\* lines 179-187: the slice the token asks for
Sliced(text, m, start) ==
  IF m.start_pos # -1
    THEN IF m.end_pos # -1 THEN Slice(text, start, m.end_pos)
         ELSE SliceFrom(text, start)
    ELSE text

\* mutant of replace_token: the line number counts from 1
replace_token_OneBased(lines, m) ==
  IF m.line_no < 1 \/ m.line_no > Len(lines) THEN <<>>
  ELSE Strip(Sliced(lines[m.line_no], m, Max(m.start_pos - 1, 0)))

\* replace_token(match): lines is 0-based in the code, 1-based here
replace_token(lines, m) ==
  IF m.line_no < 0 \/ m.line_no >= Len(lines) THEN <<>>
  ELSE Strip(Sliced(lines[m.line_no + 1], m, Max(m.start_pos - 1, 0)))

\* LINE_TOKEN_RE.sub(replace_token, pattern), scanning from position i;
\* m is the match at i
RECURSIVE SubFrom(_, _, _, _)
SubFrom(lines, p, i, m) ==
  IF i > Len(p) THEN <<>>
  ELSE IF m.ok
    THEN replace_token(lines, m) \o SubFrom(lines, p, m.next, LINE_TOKEN_RE(p, m.next))
    ELSE <<p[i]>> \o SubFrom(lines, p, i + 1, LINE_TOKEN_RE(p, i + 1))

build_value_from_line_pattern(lines, pattern) ==
  SubFrom(lines, pattern, 1, LINE_TOKEN_RE(pattern, 1))

DotPdf == <<".","p","d","f">>

\* lines 199-201: the stem is sanitized, the extension kept
SafeName(se) == sanitize_filename(se.root) \o se.ext

\* lines 195-201, on the resolved value
FilenameOf(raw) ==
  IF raw = <<>> THEN <<>>
  ELSE IF EndsWith(LowerStr(raw), DotPdf) THEN SafeName(splitext(raw))
  ELSE SafeName(splitext(raw \o DotPdf))

build_filename_from_line_pattern(lines, pattern) ==
  FilenameOf(build_value_from_line_pattern(lines, pattern))

\* the audit file's name for one date, datetime.now() formatted %Y-%m-%d
AuditStem ==
  <<"a","u","d","i","t","_","l","o","g","_","2","0","2","6","-","1","1","-","0","5">>

CsvExt == <<".","c","s","v">>

RECURSIVE ProbeAudit(_, _, _)
ProbeAudit(existing, outdir, counter) ==
  LET candidate == Append(outdir, Suffixed(AuditStem, counter, CsvExt))
  IN IF candidate \notin existing THEN candidate
     ELSE ProbeAudit(existing, outdir, counter + 1)

get_unique_auditlog_path(existing, outdir) ==
  LET base == Append(outdir, AuditStem \o CsvExt)
  IN IF base \notin existing THEN base ELSE ProbeAudit(existing, outdir, 1)

\* ------------------------------------------------------------ inputs

\* out_dir, the output root handed to split_pdf_full
out_dir == << <<"o","u","t">> >>

ReviewName == <<"!","m","a","n","u","a","l","_","r","e","v","i","e","w">>

UnknownName == <<"u","n","k","n","o","w","n">>

UnmatchedPrefix == <<"U","n","m","a","t","c","h","e","d","_","P","a","g","e","_">>

\* page texts, as page.get_text() returns them
PageNamed == <<"A"," ","b","\n","C","o">>
PageBlank == <<"\n","C","o">>
PageJunk == <<"?","\n","C","o">>
PageLone == <<"A"," ","b","_","1">>

PagePool == {PageNamed, PageBlank, PageJunk, PageLone}

Docs == UNION {[1..n -> PagePool] : n \in 0..MaxPages}

FilePatterns ==
  { <<"[","L","I","N","E"," ","0","]">>,
    <<"[","L","I","N","E"," ","1","]",".","P","D","F">> }

FolderPatterns ==
  { <<"[","L","I","N","E"," ","1","]">>,
    <<"[","L","I","N","E"," ","0","(","1","/","1",")","]">> }

\* ------------------------------------------------------------ state

VARIABLES
  doc,              \* the input document: the text of each page
  file_pattern,
  folder_pattern,
  save_to_folders,
  logOk,            \* whether APP_LOG_PATH can be opened for appending
  safe_mode,
  runs,             \* calls of split_pdf_full so far
  pc,               \* position of the running call
  page_index,
  audit_rows,
  success,
  failed,
  filename,         \* the naming decision of the page the loop is at
  raw_folder,
  foldername,
  out_path,         \* path the page being saved goes to, <<>> when none
  result,           \* <<>>, or <<summary>> once split_pdf_full has returned
  error,            \* "none", or what raised out of split_pdf_full
  dirs,             \* directories that exist
  files,            \* files that exist in the output tree
  appLog,           \* lines appended to the application log
  dirs0,            \* dirs, files and appLog when the running call started
  files0,
  appLog0,
  decs,             \* per mode, the naming decisions of its latest run
  reported,         \* per mode, the audit rows of its latest run
  written,          \* artifacts saved by the running call, in order
  clobbered,        \* paths that existed when the running call saved to them
  single_page,      \* extract_pages: its page arguments, as typed
  range_from,
  range_to,
  per_page,
  workers,          \* run_splitter: the worker threads it has started
  base_path,        \* SpecPath: argument of the latest allocation
  unique_path       \* SpecPath: its result

inputs == <<doc, file_pattern, folder_pattern, save_to_folders, logOk>>
naming == <<filename, raw_folder, foldername>>
counts == <<page_index, audit_rows, success, failed>>
fs == <<dirs, files>>
starts == <<dirs0, files0, appLog0>>
alloc == <<base_path, unique_path>>
tools == <<single_page, range_from, range_to, per_page, workers>>

vars == <<inputs, safe_mode, runs, pc, counts, naming, out_path, result, error,
          fs, appLog, starts, decs, reported, written, clobbered, alloc,
          tools>>

NoPath == <<>>

\* before run_splitter has started a thread
NoWorkers == <<>>

Exists == dirs \cup files

\* write_app_log, n times: the line is appended unless the open fails
write_app_log(n) == IF logOk THEN appLog + n ELSE appLog

\* os.makedirs(d, exist_ok=True): d and its missing ancestors
makedirs(d) == dirs \cup {SubSeq(d, 1, k) : k \in 1..Len(d)}

review_dir == Append(out_dir, ReviewName)

\* line 310: whether the page has a valid file name
Resolved == ~(filename = <<>> \/ filename = DotPdf)

\* mutant of target_dir: the raw folder value decides, not the normalized one
target_dir_ByRawFolder ==
  IF save_to_folders
    THEN IF raw_folder # <<>> THEN Append(out_dir, foldername)
         ELSE Append(out_dir, UnknownName)
    ELSE out_dir

\* lines 348-354
target_dir ==
  IF save_to_folders
    THEN IF foldername # <<>> THEN Append(out_dir, foldername)
         ELSE Append(out_dir, UnknownName)
    ELSE out_dir

\* mutant of AuditRow: Page holds the 0-based page index
AuditRow_ZeroBased(page, status, name, note) ==
  [Page |-> page - 1, Status |-> status, Filename |-> name,
   FolderRaw |-> raw_folder, FolderName |-> foldername, Note |-> note]

\* one row of audit_rows
AuditRow(page, status, name, note) ==
  [Page |-> page, Status |-> status, Filename |-> name,
   FolderRaw |-> raw_folder, FolderName |-> foldername, Note |-> note]

\* the naming decision of a page: status, file name, folder name
Decision(page, name, folder) ==
  [page |-> page,
   status |-> IF name = <<>> \/ name = DotPdf THEN "Unresolvable" ELSE "Resolved",
   filename |-> name, foldername |-> folder]

\* the dictionary split_pdf_full returns
Summary(total, ok, bad, audit_path) ==
  [total |-> total, success |-> ok, failed |-> bad, audit_path |-> audit_path]

\* ------------------------------------------------------------ split_pdf_full

total_pages == Len(doc)

page_no == page_index + 1

\* lines 300-304: the [DEBUG] dump of page 1 in safe mode
DebugLines == IF safe_mode /\ page_no = 1
                THEN Len(splitlines(doc[page_no])) + 2 ELSE 0

\* mutant of review_name: the 0-based page index is used
review_name_ZeroBased == UnmatchedPrefix \o IntStr(page_index) \o DotPdf

review_name == UnmatchedPrefix \o IntStr(page_no) \o DotPdf

Init ==
  /\ doc \in Docs
  /\ file_pattern \in FilePatterns
  /\ folder_pattern \in FolderPatterns
  /\ save_to_folders \in BOOLEAN
  /\ logOk \in BOOLEAN
  /\ safe_mode = TRUE
  /\ runs = 0
  /\ pc = "idle"
  /\ page_index = 0
  /\ audit_rows = <<>>
  /\ success = 0
  /\ failed = 0
  /\ filename = <<>>
  /\ raw_folder = <<>>
  /\ foldername = <<>>
  /\ out_path = NoPath
  /\ result = <<>>
  /\ error = "none"
  /\ dirs = {}
  /\ files = {}
  /\ appLog = 0
  /\ dirs0 = {}
  /\ files0 = {}
  /\ appLog0 = 0
  /\ decs = [m \in BOOLEAN |-> <<>>]
  /\ reported = [m \in BOOLEAN |-> <<>>]
  /\ written = <<>>
  /\ clobbered = {}
  /\ base_path = NoPath
  /\ unique_path = NoPath
  /\ single_page = <<>>
  /\ range_from = <<>>
  /\ range_to = <<>>
  /\ per_page = FALSE
  /\ workers = NoWorkers

\* run_splitter's worker calls split_pdf_full: line 274, the first log line
Call(sm) ==
  /\ pc \in {"idle", "done", "raised"}
  /\ runs < MaxRuns
  /\ safe_mode' = sm
  /\ runs' = runs + 1
  /\ pc' = "open"
  /\ page_index' = 0
  /\ audit_rows' = <<>>
  /\ reported' = [reported EXCEPT ![sm] = <<>>]
  /\ success' = 0
  /\ failed' = 0
  /\ filename' = <<>>
  /\ raw_folder' = <<>>
  /\ foldername' = <<>>
  /\ out_path' = NoPath
  /\ result' = <<>>
  /\ error' = "none"
  /\ appLog' = write_app_log(1)
  /\ dirs0' = dirs
  /\ files0' = files
  /\ appLog0' = appLog
  /\ decs' = [decs EXCEPT ![sm] = <<>>]
  /\ written' = <<>>
  /\ clobbered' = {}
  /\ UNCHANGED <<inputs, fs, alloc, tools>>

\* line 276: fitz.open raises
OpenFails ==
  /\ pc = "open"
  /\ pc' = "raised"
  /\ error' = "open"
  /\ UNCHANGED <<inputs, safe_mode, runs, counts, reported, naming, out_path, result, fs,
                 appLog, starts, decs, written, clobbered, alloc, tools>>

\* mutant of OpenEmpty: the directories of a live run are made before the
\* page count is looked at
OpenEmpty_AfterMkdirs ==
  /\ pc = "open"
  /\ total_pages = 0
  /\ dirs' = IF ~safe_mode THEN makedirs(review_dir) ELSE dirs
  /\ appLog' = write_app_log(1)
  /\ result' = <<Summary(0, 0, 0, NoPath)>>
  /\ pc' = "done"
  /\ UNCHANGED <<inputs, safe_mode, runs, counts, reported, naming, out_path, error,
                 files, starts, decs, written, clobbered, alloc, tools>>

\* lines 277-281: a document without pages
OpenEmpty ==
  /\ pc = "open"
  /\ total_pages = 0
  /\ appLog' = write_app_log(1)
  /\ result' = <<Summary(0, 0, 0, NoPath)>>
  /\ pc' = "done"
  /\ UNCHANGED <<inputs, safe_mode, runs, counts, reported, naming, out_path, error, fs,
                 starts, decs, written, clobbered, alloc, tools>>

\* mutant of Prepare: the directories are made in safe mode too
Prepare_Always ==
  /\ pc = "open"
  /\ total_pages # 0
  /\ dirs' = makedirs(review_dir)
  /\ pc' = "loop"
  /\ UNCHANGED <<inputs, safe_mode, runs, counts, reported, naming, out_path, result,
                 error, files, appLog, starts, decs, written, clobbered, alloc, tools>>

\* mutant of Prepare: the review directory is left for the first page that
\* needs it
Prepare_LazyReview ==
  /\ pc = "open"
  /\ total_pages # 0
  /\ dirs' = IF ~safe_mode THEN makedirs(out_dir) ELSE dirs
  /\ pc' = "loop"
  /\ UNCHANGED <<inputs, safe_mode, runs, counts, reported, naming, out_path, result,
                 error, files, appLog, starts, decs, written, clobbered, alloc, tools>>

\* lines 283-292: the output root and the review directory, in a live run
Prepare ==
  /\ pc = "open"
  /\ total_pages # 0
  /\ dirs' = IF ~safe_mode THEN makedirs(review_dir) ELSE dirs
  /\ pc' = "loop"
  /\ UNCHANGED <<inputs, safe_mode, runs, counts, reported, naming, out_path, result,
                 error, files, appLog, starts, decs, written, clobbered, alloc, tools>>

\* mutant of ClassifyPage: the file name is made unique against the output
\* root while it is built
ClassifyPage_Probing ==
  /\ pc = "loop"
  /\ page_index < total_pages
  /\ appLog' = write_app_log(DebugLines)
  /\ filename' = UniqueNameIn(Exists, out_dir,
                   build_filename_from_line_pattern(splitlines(doc[page_no]),
                                                    file_pattern))
  /\ raw_folder' = build_value_from_line_pattern(splitlines(doc[page_no]),
                                                 folder_pattern)
  /\ foldername' = IF raw_folder' # <<>> THEN normalize_folder_name(raw_folder')
                   ELSE <<>>
  /\ decs' = [decs EXCEPT ![safe_mode] =
                Append(@, Decision(page_no, filename', foldername'))]
  /\ pc' = "page"
  /\ UNCHANGED <<inputs, safe_mode, runs, counts, reported, out_path, result, error, fs,
                 starts, written, clobbered, alloc, tools>>

\* lines 294-308: the next page is read and its names are built
ClassifyPage ==
  /\ pc = "loop"
  /\ page_index < total_pages
  /\ appLog' = write_app_log(DebugLines)
  /\ filename' = build_filename_from_line_pattern(splitlines(doc[page_no]),
                                                  file_pattern)
  /\ raw_folder' = build_value_from_line_pattern(splitlines(doc[page_no]),
                                                 folder_pattern)
  /\ foldername' = IF raw_folder' # <<>> THEN normalize_folder_name(raw_folder')
                   ELSE <<>>
  /\ decs' = [decs EXCEPT ![safe_mode] =
                Append(@, Decision(page_no, filename', foldername'))]
  /\ pc' = "page"
  /\ UNCHANGED <<inputs, safe_mode, runs, counts, reported, out_path, result, error, fs,
                 starts, written, clobbered, alloc, tools>>

\* lines 310-327: no valid file name, safe mode
PageUnresolvedSafe ==
  /\ pc = "page"
  /\ ~Resolved
  /\ safe_mode
  /\ failed' = failed + 1
  /\ appLog' = write_app_log(2)
  /\ audit_rows' = Append(audit_rows,
       AuditRow(page_no, "Failed (SAFE mode)", <<>>,
                <<"Would be sent to !manual_review">>))
  /\ reported' = [reported EXCEPT ![safe_mode] = audit_rows']
  /\ page_index' = page_index + 1
  /\ pc' = "loop"
  /\ UNCHANGED <<inputs, safe_mode, runs, success, naming, out_path, result,
                 error, fs, starts, decs, written, clobbered, alloc, tools>>

\* lines 310-315, 329-346: no valid file name, live run: the page is saved in
\* the review directory
PageUnresolvedLive ==
  /\ pc = "page"
  /\ ~Resolved
  /\ ~safe_mode
  /\ failed' = failed + 1
  /\ appLog' = write_app_log(2)
  /\ files' = files \cup {Append(review_dir, review_name)}
  /\ written' = Append(written, [page |-> page_no,
                                 path |-> Append(review_dir, review_name)])
  /\ clobbered' = clobbered \cup ({Append(review_dir, review_name)} \cap files)
  /\ audit_rows' = Append(audit_rows,
       AuditRow(page_no, "Failed", <<>>, <<"Sent to ", review_name>>))
  /\ reported' = [reported EXCEPT ![safe_mode] = audit_rows']
  /\ page_index' = page_index + 1
  /\ pc' = "loop"
  /\ UNCHANGED <<inputs, safe_mode, runs, success, naming, out_path, result,
                 error, dirs, starts, decs, alloc, tools>>

\* line 333 raises: the review artifact cannot be saved; the file may have
\* been created before the failure
ReviewSaveFails ==
  /\ pc = "page"
  /\ ~Resolved
  /\ ~safe_mode
  /\ failed' = failed + 1
  /\ appLog' = write_app_log(2)
  /\ \E left \in BOOLEAN :
       files' = IF left THEN files \cup {Append(review_dir, review_name)}
                ELSE files
  /\ pc' = "raised"
  /\ error' = "review"
  /\ UNCHANGED <<inputs, safe_mode, runs, page_index, audit_rows, reported, success,
                 naming, out_path, result, dirs, starts, decs, written,
                 clobbered, alloc, tools>>

\* lines 348-372: a valid file name, safe mode
PageResolvedSafe ==
  /\ pc = "page"
  /\ Resolved
  /\ safe_mode
  /\ appLog' = write_app_log(1)
  /\ audit_rows' = Append(audit_rows,
       AuditRow(page_no, "OK (SAFE mode)", filename, <<"Would be saved">>))
  /\ reported' = [reported EXCEPT ![safe_mode] = audit_rows']
  /\ page_index' = page_index + 1
  /\ pc' = "loop"
  /\ UNCHANGED <<inputs, safe_mode, runs, success, failed, naming, out_path,
                 result, error, fs, starts, decs, written, clobbered, alloc, tools>>

\* lines 348-354, 374-383: a valid file name, live run: the target directory
\* is made and the final name chosen
PageResolvedLive ==
  /\ pc = "page"
  /\ Resolved
  /\ ~safe_mode
  /\ dirs' = makedirs(target_dir)
  /\ out_path' = Append(target_dir,
                        UniqueNameIn(dirs' \cup files, target_dir, filename))
  /\ pc' = "save"
  /\ UNCHANGED <<inputs, safe_mode, runs, counts, reported, naming, result, error, files,
                 appLog, starts, decs, written, clobbered, alloc, tools>>

\* lines 384-387: the page artifact is saved
SavePage ==
  /\ pc = "save"
  /\ files' = files \cup {out_path}
  /\ written' = Append(written, [page |-> page_no, path |-> out_path])
  /\ clobbered' = clobbered \cup ({out_path} \cap files)
  /\ pc' = "saved"
  /\ UNCHANGED <<inputs, safe_mode, runs, counts, reported, naming, out_path, result,
                 error, dirs, appLog, starts, decs, alloc, tools>>

\* mutant of SaveFails: the failure is caught and the page recorded as Failed
SaveFails_Downgraded ==
  /\ pc = "save"
  /\ UNCHANGED files
  /\ failed' = failed + 1
  /\ audit_rows' = Append(audit_rows,
       [Page |-> page_no, Status |-> "Failed", Filename |-> <<>>,
        FolderRaw |-> raw_folder, FolderName |-> foldername, Note |-> <<>>])
  /\ reported' = [reported EXCEPT ![safe_mode] = audit_rows']
  /\ page_index' = page_index + 1
  /\ out_path' = NoPath
  /\ pc' = "loop"
  /\ UNCHANGED <<inputs, safe_mode, runs, success, naming, result, error, dirs,
                 appLog, starts, decs, written, clobbered, alloc, tools>>

\* line 386 raises: the artifact cannot be saved; the file may have been
\* created before the failure
SaveFails ==
  /\ pc = "save"
  /\ \E left \in BOOLEAN :
       files' = IF left THEN files \cup {out_path} ELSE files
  /\ pc' = "raised"
  /\ error' = "save"
  /\ UNCHANGED <<inputs, safe_mode, runs, counts, reported, naming, out_path, result,
                 dirs, appLog, starts, decs, written, clobbered, alloc, tools>>

\* lines 389-400: the saved page is counted, logged and recorded
RecordOK ==
  /\ pc = "saved"
  /\ success' = success + 1
  /\ appLog' = write_app_log(1)
  /\ audit_rows' = Append(audit_rows,
       AuditRow(page_no, "OK", out_path[Len(out_path)], <<>>))
  /\ reported' = [reported EXCEPT ![safe_mode] = audit_rows']
  /\ page_index' = page_index + 1
  /\ out_path' = NoPath
  /\ pc' = "loop"
  /\ UNCHANGED <<inputs, safe_mode, runs, failed, naming, result, error, fs,
                 starts, decs, written, clobbered, alloc, tools>>

\* lines 404-410, 417-436: the audit file is written and the summary returned
WriteAudit ==
  /\ pc = "loop"
  /\ page_index = total_pages
  /\ ~safe_mode
  /\ files' = files \cup {get_unique_auditlog_path(Exists, out_dir)}
  /\ clobbered' = clobbered \cup ({get_unique_auditlog_path(Exists, out_dir)} \cap files)
  /\ result' = <<Summary(total_pages, success, failed,
                         get_unique_auditlog_path(Exists, out_dir))>>
  /\ appLog' = write_app_log(2)
  /\ pc' = "done"
  /\ UNCHANGED <<inputs, safe_mode, runs, counts, reported, naming, out_path, error,
                 dirs, starts, decs, written, alloc, tools>>

\* mutant of WriteAuditFails: audit_path is not reset after the failure
WriteAuditFails_KeepsPath ==
  /\ pc = "loop"
  /\ page_index = total_pages
  /\ ~safe_mode
  /\ UNCHANGED files
  /\ result' = <<Summary(total_pages, success, failed,
                         get_unique_auditlog_path(Exists, out_dir))>>
  /\ error' = "audit"
  /\ appLog' = write_app_log(2)
  /\ pc' = "done"
  /\ UNCHANGED <<inputs, safe_mode, runs, counts, reported, naming, out_path, dirs,
                 starts, decs, written, clobbered, alloc, tools>>

\* lines 404-413, 417-436: writing the audit file raises; the exception is
\* caught, the file may have been created before the failure
WriteAuditFails ==
  /\ pc = "loop"
  /\ page_index = total_pages
  /\ ~safe_mode
  /\ \E left \in BOOLEAN :
       files' = IF left
                  THEN files \cup {get_unique_auditlog_path(Exists, out_dir)}
                  ELSE files
  /\ result' = <<Summary(total_pages, success, failed, NoPath)>>
  /\ error' = "audit"
  /\ appLog' = write_app_log(2)
  /\ pc' = "done"
  /\ UNCHANGED <<inputs, safe_mode, runs, counts, reported, naming, out_path, dirs,
                 starts, decs, written, clobbered, alloc, tools>>

\* lines 404, 414-436: safe mode writes no audit file
SkipAudit ==
  /\ pc = "loop"
  /\ page_index = total_pages
  /\ safe_mode
  /\ result' = <<Summary(total_pages, success, failed, NoPath)>>
  /\ appLog' = write_app_log(2)
  /\ pc' = "done"
  /\ UNCHANGED <<inputs, safe_mode, runs, counts, reported, naming, out_path, error, fs,
                 starts, decs, written, clobbered, alloc, tools>>

Next ==
  \/ \E sm \in BOOLEAN : Call(sm)
  \/ OpenFails
  \/ OpenEmpty
  \/ Prepare
  \/ ClassifyPage
  \/ PageUnresolvedSafe
  \/ PageUnresolvedLive
  \/ ReviewSaveFails
  \/ PageResolvedSafe
  \/ PageResolvedLive
  \/ SavePage
  \/ SaveFails
  \/ RecordOK
  \/ WriteAudit
  \/ WriteAuditFails
  \/ SkipAudit

Spec == Init /\ [][Next]_vars

\* ------------------------------------------------------------ SpecPath
\* The path allocators on their own: files appear in the output root, a name
\* is allocated by get_unique_path or by the loop of split_pdf_full, and the
\* caller saves to the allocated path.

BaseNames ==
  { <<"a",".","p","d","f">>,
    <<"a","_","1",".","p","d","f">>,
    <<"a">> }

\* the base names and their suffixed variants up to MaxSuffix
PathUniverse ==
  {Append(out_dir, n) : n \in BaseNames}
    \cup {Append(out_dir, Suffixed(splitext(n).root, k, splitext(n).ext)) :
            n \in BaseNames, k \in 1..MaxSuffix}

InitPath ==
  /\ doc = <<>>
  /\ file_pattern = <<>>
  /\ folder_pattern = <<>>
  /\ save_to_folders = FALSE
  /\ logOk = TRUE
  /\ safe_mode = FALSE
  /\ runs = 0
  /\ pc = "alloc"
  /\ page_index = 0
  /\ audit_rows = <<>>
  /\ success = 0
  /\ failed = 0
  /\ filename = <<>>
  /\ raw_folder = <<>>
  /\ foldername = <<>>
  /\ out_path = NoPath
  /\ result = <<>>
  /\ error = "none"
  /\ dirs = {out_dir}
  /\ files = {}
  /\ appLog = 0
  /\ dirs0 = {}
  /\ files0 = {}
  /\ appLog0 = 0
  /\ decs = [m \in BOOLEAN |-> <<>>]
  /\ reported = [m \in BOOLEAN |-> <<>>]
  /\ written = <<>>
  /\ clobbered = {}
  /\ base_path = NoPath
  /\ unique_path = NoPath
  /\ single_page = <<>>
  /\ range_from = <<>>
  /\ range_to = <<>>
  /\ per_page = FALSE
  /\ workers = NoWorkers

\* a file that exists before the allocation
Touch(p) ==
  /\ pc = "alloc"
  /\ p \notin files
  /\ files' = files \cup {p}
  /\ UNCHANGED <<inputs, safe_mode, runs, pc, counts, reported, naming, out_path, result,
                 error, dirs, appLog, starts, decs, written, clobbered, alloc, tools>>

\* final_path = get_unique_path(os.path.join(out_dir, out_name))
CallGetUniquePath(name) ==
  /\ pc = "alloc"
  /\ base_path' = Append(out_dir, name)
  /\ unique_path' = get_unique_path(Exists, Append(out_dir, name))
  /\ pc' = "got_unique_path"
  /\ UNCHANGED <<inputs, safe_mode, runs, counts, reported, naming, out_path, result,
                 error, fs, appLog, starts, decs, written, clobbered, tools>>

\* lines 376-383 on their own: out_path = join(target_dir, final_name)
ProbeFinalName(name) ==
  /\ pc = "alloc"
  /\ base_path' = Append(out_dir, name)
  /\ unique_path' = Append(out_dir, UniqueNameIn(Exists, out_dir, name))
  /\ pc' = "got_final_name"
  /\ UNCHANGED <<inputs, safe_mode, runs, counts, reported, naming, out_path, result,
                 error, fs, appLog, starts, decs, written, clobbered, tools>>

\* new_doc.save(final_path); the model stops growing the directory at the
\* suffix MaxSuffix
SaveUnique ==
  /\ pc \in {"got_unique_path", "got_final_name"}
  /\ unique_path \in PathUniverse
  /\ files' = files \cup {unique_path}
  /\ pc' = "alloc"
  /\ UNCHANGED <<inputs, safe_mode, runs, counts, reported, naming, out_path, result,
                 error, dirs, appLog, starts, decs, written, clobbered, alloc, tools>>

\* the caller drops the allocated path
DropUnique ==
  /\ pc \in {"got_unique_path", "got_final_name"}
  /\ pc' = "alloc"
  /\ UNCHANGED <<inputs, safe_mode, runs, counts, reported, naming, out_path, result,
                 error, fs, appLog, starts, decs, written, clobbered, alloc, tools>>

NextPath ==
  \/ \E p \in PathUniverse : Touch(p)
  \/ \E name \in BaseNames : CallGetUniquePath(name)
  \/ \E name \in BaseNames : ProbeFinalName(name)
  \/ SaveUnique
  \/ DropUnique

SpecPath == InitPath /\ [][NextPath]_vars

\* ------------------------------------------------------------ naming alone
\* The pattern builder and the file-name transform on their own: a page and
\* the two patterns are drawn, the names are built as the page loop builds
\* them, and the file-name transform is applied once more to its own result.

\* the token [LINE n(s/e)]
LineToken(n, s, e) ==
  <<"[","L","I","N","E"," ">> \o IntStr(n) \o <<"(">> \o IntStr(s)
    \o <<"/">> \o IntStr(e) \o <<")","]">>

PageHello ==
  <<"H","e","l","l","o"," ","W","o","r","l","d","\n"," ","a","b"," ">>
PageABCD == <<"A","\n","B","\n","C","\n","D">>
PageABC == <<"A","\n","B","\n","C">>

NamePages == {PageHello, PageABCD, PageABC}

\* the pattern the help text gives as an example
PatternLines123 ==
  <<"[","L","I","N","E"," ","1","]","[","L","I","N","E"," ","2","]","_",
    "[","L","I","N","E"," ","3","]",".","p","d","f">>

PatternLine0 == <<"[","L","I","N","E"," ","0","]">>

\* tokens and literal file patterns
NameFilePatterns ==
  { PatternLines123,
    PatternLine0,
    <<"[","L","I","N","E"," ","9","]">>,
    <<".","p","d","f">>,
    <<".",".","p","d","f">>,
    <<".","P","D","F">>,
    <<"?">>,
    <<".",".">>,
    <<"a",".","b">>,
    <<" ","a">>,
    <<"a"," ","b",".","p","d","f">>,
    <<"-">>,
    <<>> }

NameFolderPatterns ==
  {LineToken(n, s, e) : n \in 0..2, s \in 0..MaxPos, e \in 0..MaxPos}
    \cup {PatternLines123}

InitNames ==
  /\ doc \in {<<p>> : p \in NamePages}
  /\ file_pattern \in NameFilePatterns
  /\ folder_pattern \in NameFolderPatterns
  /\ save_to_folders = FALSE
  /\ logOk = TRUE
  /\ safe_mode = TRUE
  /\ runs = 0
  /\ pc = "names"
  /\ page_index = 0
  /\ audit_rows = <<>>
  /\ success = 0
  /\ failed = 0
  /\ filename = <<>>
  /\ raw_folder = <<>>
  /\ foldername = <<>>
  /\ out_path = NoPath
  /\ result = <<>>
  /\ error = "none"
  /\ dirs = {}
  /\ files = {}
  /\ appLog = 0
  /\ dirs0 = {}
  /\ files0 = {}
  /\ appLog0 = 0
  /\ decs = [m \in BOOLEAN |-> <<>>]
  /\ reported = [m \in BOOLEAN |-> <<>>]
  /\ written = <<>>
  /\ clobbered = {}
  /\ base_path = NoPath
  /\ unique_path = NoPath
  /\ single_page = <<>>
  /\ range_from = <<>>
  /\ range_to = <<>>
  /\ per_page = FALSE
  /\ workers = NoWorkers

\* lines 298, 306-308 on their own
BuildNames ==
  /\ pc = "names"
  /\ filename' = build_filename_from_line_pattern(splitlines(doc[page_no]),
                                                  file_pattern)
  /\ raw_folder' = build_value_from_line_pattern(splitlines(doc[page_no]),
                                                 folder_pattern)
  /\ foldername' = IF raw_folder' # <<>> THEN normalize_folder_name(raw_folder')
                   ELSE <<>>
  /\ pc' = "built"
  /\ UNCHANGED <<inputs, safe_mode, runs, counts, reported, out_path, result, error, fs,
                 appLog, starts, decs, written, clobbered, alloc, tools>>

\* lines 195-201 applied to the file name they produced
Resanitize ==
  /\ pc = "built"
  /\ filename # <<>>
  /\ filename' = FilenameOf(filename)
  /\ pc' = "rebuilt"
  /\ UNCHANGED <<inputs, safe_mode, runs, counts, reported, raw_folder, foldername,
                 out_path, result, error, fs, appLog, starts, decs, written,
                 clobbered, alloc, tools>>

NextNames ==
  \/ BuildNames
  \/ Resanitize

SpecNames == InitNames /\ [][NextNames]_vars

\* ------------------------------------------------------------ extract_pages
\* extract_pages on its own: the page arguments arrive as the strings typed
\* in the GUI, the document has 0..MaxPages pages.

\* os.path.splitext(os.path.basename(inp_path))[0]
base_name == <<"i","n">>

\* what the page fields may hold: nothing, a word, or a number
PageArgs == {<<>>, <<"x">>} \cup {IntStr(k) : k \in 0..(MaxPages + 1)}

ExtractDocs == {[i \in 1..n |-> PageNamed] : n \in 0..MaxPages}

\* int(s) returns, for the strings of PageArgs
IsNumber(s) == s # <<>> /\ \A i \in 1..Len(s) : IsDigit(s[i])

\* out_name of one page and of a range
PageName(p) == base_name \o <<"_","p","a","g","e","_">> \o IntStr(p) \o DotPdf
RangeName(a, b) ==
  base_name \o <<"_","p","a","g","e","s","_">> \o IntStr(a) \o <<"-">>
    \o IntStr(b) \o DotPdf

\* lines 468-471: the single-page branch is taken and its page is in range
SingleOk ==
  /\ single_page # <<>>
  /\ IsNumber(single_page)
  /\ IntOf(single_page) >= 1
  /\ IntOf(single_page) <= total_pages

\* lines 481-485: the range branch is taken and the range is in the document
RangeOk ==
  /\ single_page = <<>>
  /\ range_from # <<>>
  /\ range_to # <<>>
  /\ IsNumber(range_from)
  /\ IsNumber(range_to)
  /\ IntOf(range_from) >= 1
  /\ IntOf(range_to) <= total_pages
  /\ IntOf(range_from) <= IntOf(range_to)

InitExtract ==
  /\ doc \in ExtractDocs
  /\ single_page \in PageArgs
  /\ range_from \in PageArgs
  /\ range_to \in PageArgs
  /\ per_page \in BOOLEAN
  /\ dirs \in {{}, {out_dir}}
  /\ files \in {{}, {Append(out_dir, PageName(1))}}
  /\ files # {} => dirs # {}
  /\ file_pattern = <<>>
  /\ folder_pattern = <<>>
  /\ save_to_folders = FALSE
  /\ logOk = TRUE
  /\ safe_mode = FALSE
  /\ runs = 0
  /\ pc = "extract"
  /\ page_index = 0
  /\ audit_rows = <<>>
  /\ success = 0
  /\ failed = 0
  /\ filename = <<>>
  /\ raw_folder = <<>>
  /\ foldername = <<>>
  /\ out_path = NoPath
  /\ result = <<>>
  /\ error = "none"
  /\ appLog = 0
  /\ dirs0 = dirs
  /\ files0 = files
  /\ appLog0 = 0
  /\ decs = [m \in BOOLEAN |-> <<>>]
  /\ reported = [m \in BOOLEAN |-> <<>>]
  /\ written = <<>>
  /\ clobbered = {}
  /\ base_path = NoPath
  /\ unique_path = NoPath
  /\ workers = NoWorkers

\* lines 457-459: the first log line, the document is opened
ExtractOpen ==
  /\ pc = "extract"
  /\ appLog' = write_app_log(1)
  /\ pc' = "opened"
  /\ UNCHANGED <<inputs, safe_mode, runs, counts, reported, naming, out_path,
                 result, error, fs, starts, decs, written, clobbered, alloc,
                 tools>>

\* lines 460-463: no pages, extract_pages returns
ExtractEmpty ==
  /\ pc = "opened"
  /\ total_pages = 0
  /\ appLog' = write_app_log(1)
  /\ pc' = "done"
  /\ UNCHANGED <<inputs, safe_mode, runs, counts, reported, naming, out_path,
                 result, error, fs, starts, decs, written, clobbered, alloc,
                 tools>>

\* line 465: os.makedirs(out_dir, exist_ok=True)
ExtractMkdir ==
  /\ pc = "opened"
  /\ total_pages # 0
  /\ dirs' = makedirs(out_dir)
  /\ pc' = "args"
  /\ UNCHANGED <<inputs, safe_mode, runs, counts, reported, naming, out_path,
                 result, error, files, appLog, starts, decs, written, clobbered,
                 alloc, tools>>

\* lines 468-471, 481-485, 506-508: int() or a range test raises ValueError,
\* or neither a page nor a range is given; the finally clause closes doc
ExtractRejects ==
  /\ pc = "args"
  /\ ~SingleOk
  /\ ~RangeOk
  /\ error' = "value"
  /\ pc' = "raised"
  /\ UNCHANGED <<inputs, safe_mode, runs, counts, reported, naming, out_path,
                 result, fs, appLog, starts, decs, written, clobbered, alloc,
                 tools>>

\* what saving to the unique path of out_dir/name does to the file system
ExtractSave(p, name) ==
  /\ files' = files \cup {get_unique_path(Exists, Append(out_dir, name))}
  /\ written' = Append(written,
       [page |-> p,
        path |-> get_unique_path(Exists, Append(out_dir, name))])
  /\ clobbered' = clobbered \cup ({get_unique_path(Exists, Append(out_dir, name))}
                                    \cap files)
  /\ appLog' = write_app_log(1)

\* lines 472-479: the single page is saved
ExtractSingle ==
  /\ pc = "args"
  /\ SingleOk
  /\ ExtractSave(IntOf(single_page), PageName(IntOf(single_page)))
  /\ pc' = "done"
  /\ UNCHANGED <<inputs, safe_mode, runs, counts, reported, naming, out_path,
                 result, error, dirs, starts, decs, alloc, tools>>

\* lines 498-505: the range is saved as one file
ExtractRange ==
  /\ pc = "args"
  /\ RangeOk
  /\ ~per_page
  /\ ExtractSave(IntOf(range_from),
                 RangeName(IntOf(range_from), IntOf(range_to)))
  /\ pc' = "done"
  /\ UNCHANGED <<inputs, safe_mode, runs, counts, reported, naming, out_path,
                 result, error, dirs, starts, decs, alloc, tools>>

\* lines 488-489: the per-page loop starts at range_from
ExtractLoop ==
  /\ pc = "args"
  /\ RangeOk
  /\ per_page
  /\ page_index' = IntOf(range_from)
  /\ pc' = "pages"
  /\ UNCHANGED <<inputs, safe_mode, runs, audit_rows, success, failed, reported,
                 naming, out_path, result, error, fs, appLog, starts, decs,
                 written, clobbered, alloc, tools>>

\* lines 489-496: one page of the range is saved
ExtractPage ==
  /\ pc = "pages"
  /\ page_index <= IntOf(range_to)
  /\ ExtractSave(page_index, PageName(page_index))
  /\ page_index' = page_index + 1
  /\ UNCHANGED <<inputs, safe_mode, runs, pc, audit_rows, success, failed,
                 reported, naming, out_path, result, error, dirs, starts, decs,
                 alloc, tools>>

\* the loop is over
ExtractDone ==
  /\ pc = "pages"
  /\ page_index > IntOf(range_to)
  /\ pc' = "done"
  /\ UNCHANGED <<inputs, safe_mode, runs, counts, reported, naming, out_path,
                 result, error, fs, appLog, starts, decs, written, clobbered,
                 alloc, tools>>

NextExtract ==
  \/ ExtractOpen
  \/ ExtractEmpty
  \/ ExtractMkdir
  \/ ExtractRejects
  \/ ExtractSingle
  \/ ExtractRange
  \/ ExtractLoop
  \/ ExtractPage
  \/ ExtractDone

SpecExtract == InitExtract /\ [][NextExtract]_vars

\* ------------------------------------------------------------ run_splitter
\* The GUI's Run button: every click starts a worker thread that runs
\* split_pdf_full in live mode on the fields of the form.  The threads share
\* the output tree; each has its own page_index and out_path.  A thread's
\* steps are the ones of split_pdf_full that touch the output tree.

\* a thread that run_splitter has just started
NewWorker == [pc |-> "open", page_index |-> 0, out_path |-> NoPath]

\* lines 348-354, for the folder name of a thread's page
TargetDirOf(folder) ==
  IF save_to_folders
    THEN IF folder # <<>> THEN Append(out_dir, folder)
         ELSE Append(out_dir, UnknownName)
    ELSE out_dir

\* line 308, on the raw folder value
FolderOf(raw) == IF raw # <<>> THEN normalize_folder_name(raw) ELSE <<>>

\* line 331, for a thread's page number
ReviewNameOf(n) == UnmatchedPrefix \o IntStr(n) \o DotPdf

InitGui ==
  /\ doc \in Docs
  /\ file_pattern \in FilePatterns
  /\ folder_pattern \in FolderPatterns
  /\ save_to_folders \in BOOLEAN
  /\ logOk = TRUE
  /\ safe_mode = FALSE
  /\ runs = 0
  /\ pc = "gui"
  /\ page_index = 0
  /\ audit_rows = <<>>
  /\ success = 0
  /\ failed = 0
  /\ filename = <<>>
  /\ raw_folder = <<>>
  /\ foldername = <<>>
  /\ out_path = NoPath
  /\ result = <<>>
  /\ error = "none"
  /\ dirs = {}
  /\ files = {}
  /\ appLog = 0
  /\ dirs0 = {}
  /\ files0 = {}
  /\ appLog0 = 0
  /\ decs = [m \in BOOLEAN |-> <<>>]
  /\ reported = [m \in BOOLEAN |-> <<>>]
  /\ written = <<>>
  /\ clobbered = {}
  /\ base_path = NoPath
  /\ unique_path = NoPath
  /\ single_page = <<>>
  /\ range_from = <<>>
  /\ range_to = <<>>
  /\ per_page = FALSE
  /\ workers = NoWorkers

\* what a step of the threads leaves alone
GuiFrame ==
  UNCHANGED <<inputs, safe_mode, runs, pc, counts, reported, naming, out_path,
              result, error, appLog, starts, decs, alloc, single_page,
              range_from, range_to, per_page>>

\* lines 881-950: run_splitter starts a thread, whatever the earlier ones do
run_splitter ==
  /\ Len(workers) < MaxThreads
  /\ workers' = Append(workers, NewWorker)
  /\ UNCHANGED <<fs, written, clobbered>>
  /\ GuiFrame

\* lines 276-288: the document is opened; with pages, the directories are made
WorkerPrepare(t) ==
  /\ workers[t].pc = "open"
  /\ dirs' = IF total_pages = 0 THEN dirs ELSE makedirs(review_dir)
  /\ workers' = [workers EXCEPT ![t].pc =
                   IF total_pages = 0 THEN "done" ELSE "loop"]
  /\ UNCHANGED <<files, written, clobbered>>
  /\ GuiFrame

\* lines 310-346: the thread's page has no valid file name and is saved in
\* the review directory
WorkerReview(t, name) ==
  /\ name = <<>> \/ name = DotPdf
  /\ files' = files \cup
       {Append(review_dir, ReviewNameOf(workers[t].page_index + 1))}
  /\ written' = Append(written,
       [thread |-> t, page |-> workers[t].page_index + 1,
        path |-> Append(review_dir, ReviewNameOf(workers[t].page_index + 1))])
  /\ workers' = [workers EXCEPT ![t].page_index = @ + 1]
  /\ UNCHANGED <<dirs, clobbered>>

\* lines 348-354, 374-383: the directory is made and the free name is looked
\* for; out_path is where the page will go
WorkerProbe(t, name, target) ==
  /\ ~(name = <<>> \/ name = DotPdf)
  /\ dirs' = makedirs(target)
  /\ workers' = [workers EXCEPT
       ![t].out_path = Append(target, UniqueNameIn(Exists, target, name)),
       ![t].pc = "save"]
  /\ UNCHANGED <<files, written, clobbered>>

\* lines 294-383: the thread takes its next page
WorkerPage(t) ==
  /\ workers[t].pc = "loop"
  /\ workers[t].page_index < total_pages
  /\ \/ WorkerReview(t,
          build_filename_from_line_pattern(
            splitlines(doc[workers[t].page_index + 1]), file_pattern))
     \/ WorkerProbe(t,
          build_filename_from_line_pattern(
            splitlines(doc[workers[t].page_index + 1]), file_pattern),
          TargetDirOf(FolderOf(build_value_from_line_pattern(
            splitlines(doc[workers[t].page_index + 1]), folder_pattern))))
  /\ GuiFrame

\* lines 384-400: the page is saved to out_path
WorkerSave(t) ==
  /\ workers[t].pc = "save"
  /\ files' = files \cup {workers[t].out_path}
  /\ clobbered' = clobbered \cup ({workers[t].out_path} \cap files)
  /\ written' = Append(written,
       [thread |-> t, page |-> workers[t].page_index + 1,
        path |-> workers[t].out_path])
  /\ workers' = [workers EXCEPT ![t].page_index = @ + 1, ![t].pc = "loop",
                                ![t].out_path = NoPath]
  /\ UNCHANGED dirs
  /\ GuiFrame

\* lines 402-436: after the last page the audit file is written
WorkerFinish(t) ==
  /\ workers[t].pc = "loop"
  /\ workers[t].page_index = total_pages
  /\ files' = files \cup {get_unique_auditlog_path(Exists, out_dir)}
  /\ workers' = [workers EXCEPT ![t].pc = "done"]
  /\ UNCHANGED <<dirs, written, clobbered>>
  /\ GuiFrame

NextGui ==
  \/ run_splitter
  \/ \E t \in 1..Len(workers) : WorkerPrepare(t)
  \/ \E t \in 1..Len(workers) : WorkerPage(t)
  \/ \E t \in 1..Len(workers) : WorkerSave(t)
  \/ \E t \in 1..Len(workers) : WorkerFinish(t)

SpecGui == InitGui /\ [][NextGui]_vars

\* ------------------------------------------------------------ claims

InRun ==
  pc \in {"open", "loop", "page", "save", "saved", "done", "raised"}

Live == InRun /\ ~safe_mode

\* the naming decisions of the running call
RunDecs == decs[safe_mode]

IsAuditPath(f) ==
  /\ Len(f) = Len(out_dir) + 1
  /\ SubSeq(f, 1, Len(out_dir)) = out_dir
  /\ HasAt(f[Len(f)], 1, AuditStem)

\* the directory a row's page was routed to
RowDir(row) ==
  IF save_to_folders
    THEN Append(out_dir, IF row.FolderName # <<>> THEN row.FolderName
                         ELSE UnknownName)
    ELSE out_dir

\* the k-th name the suffixing rule tries for a file name: the name itself,
\* then stem_1.ext, stem_2.ext, ...
NameCand(name, k) ==
  IF k = 0 THEN name
  ELSE splitext(name).root \o <<"_">> \o IntStr(k) \o splitext(name).ext

PathCand(path, k) ==
  Append(SubSeq(path, 1, Len(path) - 1), NameCand(path[Len(path)], k))

\* path is the first of the candidates of base that does not exist, the
\* candidates taken from the k0-th on
FirstFree(path, base, k0) ==
  \E k \in k0..(Cardinality(Exists) + 1) :
    /\ path = PathCand(base, k)
    /\ path \notin Exists
    /\ \A j \in k0..(k - 1) : PathCand(base, j) \in Exists

\* C1 as stated: a run with safe_mode = true mutates nothing on the
\* filesystem: no directory, no artifact, no audit file, and no other file is
\* created or appended to between the start of the run and its return.
C1_SafeRunWritesNothing ==
  (InRun /\ safe_mode) =>
    /\ dirs = dirs0
    /\ files = files0
    /\ appLog = appLog0

\* C1 amended: a run with safe_mode = true leaves the output tree as it
\* found it (no directory created, no artifact saved, no audit file written,
\* audit_path null); the application log is the one file it appends to.
C1_SafeRunLeavesOutputTree ==
  (InRun /\ safe_mode) =>
    /\ dirs = dirs0
    /\ files = files0
    /\ written = <<>>
    /\ clobbered = {}
    /\ appLog >= appLog0
    /\ result # <<>> => result[1].audit_path = NoPath

\* a safe run over two pages, one named and one not, has returned, and its
\* log lines were appended
C1_Witness ==
  /\ pc = "done"
  /\ safe_mode
  /\ Len(audit_rows) = 2
  /\ \E i \in 1..2 : audit_rows[i].Status = "OK (SAFE mode)"
  /\ \E i \in 1..2 : audit_rows[i].Status = "Failed (SAFE mode)"
  /\ appLog > appLog0

\* C2, state part: the pages are visited in the order 1..N and the audit
\* rows are one per page, in page order; a run that returns has N rows.
C2_RowsInPageOrder ==
  InRun =>
    /\ \A i \in 1..Len(RunDecs) : RunDecs[i].page = i
    /\ \A i \in 1..Len(audit_rows) : audit_rows[i].Page = i
    /\ Len(audit_rows) = page_index
    /\ Len(RunDecs) \in {page_index, page_index + 1}
    /\ Len(RunDecs) = page_index + 1 => pc \in {"page", "save", "saved", "raised"}
    /\ pc = "done" => Len(audit_rows) = total_pages /\ Len(RunDecs) = total_pages

\* C2, step part: within a run a row once appended stays as it is, and rows
\* are only appended one at a time.
C2_RowsKept ==
  pc' # "open" =>
    /\ Len(audit_rows') \in {Len(audit_rows), Len(audit_rows) + 1}
    /\ SubSeq(audit_rows', 1, Len(audit_rows)) = audit_rows

\* C2: every run (live or simulated) visits the pages in ascending order and
\* ends with exactly one audit record per page, Page = 1..N in that order,
\* and no record is modified or removed once appended.
C2_OneRecordPerPage == []C2_RowsInPageOrder /\ [][C2_RowsKept]_vars

\* a live run over two pages has returned
C2_Witness ==
  /\ pc = "done"
  /\ ~safe_mode
  /\ total_pages = 2
  /\ Len(audit_rows) = 2
  /\ audit_rows[2].Page = 2

\* C3: a simulated and a live run on the same document and patterns make the
\* same naming decision for every page (status, file name, folder name),
\* whatever the output directory holds.
C3_SameDecisions ==
  \A i \in 1..Min(Len(decs[TRUE]), Len(decs[FALSE])) :
    decs[TRUE][i] = decs[FALSE][i]

\* a simulated run after a live run that left files: both decided two pages,
\* one of them Resolved
C3_Witness ==
  /\ safe_mode
  /\ pc = "done"
  /\ files0 # {}
  /\ Len(decs[TRUE]) = 2
  /\ Len(decs[FALSE]) = 2
  /\ \E i \in 1..2 : decs[FALSE][i].status = "Resolved"
  /\ \E i \in 1..2 : decs[TRUE][i].status = "Unresolvable"

\* rows i and j of a live run are Resolved pages with the same file name,
\* routed to the same directory
SameTarget(i, j) ==
  /\ RunDecs[i].status = "Resolved"
  /\ RunDecs[j].status = "Resolved"
  /\ RunDecs[i].filename = RunDecs[j].filename
  /\ RowDir(audit_rows[i]) = RowDir(audit_rows[j])

\* how many earlier rows share row i's file name and directory
Earlier(i) == Cardinality({k \in 1..(i - 1) : SameTarget(k, i)})

\* C4 as stated: of the pages of a live run that resolve to the same file
\* name in the same directory, the first keeps the classified name and the
\* second is saved as <stem>_1.pdf.
C4_FirstKeepsSecondGetsOne ==
  Live =>
    \A i, j \in 1..Len(audit_rows) :
      (i < j /\ SameTarget(i, j) /\ Earlier(i) = 0 /\ Earlier(j) = 1) =>
        /\ audit_rows[i].Filename = RunDecs[i].filename
        /\ audit_rows[j].Filename = NameCand(RunDecs[j].filename, 1)

\* C4 amended: pages of a live run that resolve to the same file name in the
\* same directory are all saved under distinct names and none overwrites a
\* file; each is saved under the first of name, stem_1.ext, stem_2.ext, ...
\* that does not exist in the directory when the page is processed; each has
\* an audit row with status OK carrying that final name and counts as a
\* success.
C4_CollidingPagesAllSaved ==
  Live =>
    /\ \A i, j \in 1..Len(written) :
         i # j => written[i].path # written[j].path
    /\ \A w \in 1..Len(written) :
         RunDecs[written[w].page].status = "Resolved" =>
           written[w].path \notin clobbered
    /\ pc = "save" =>
         FirstFree(out_path, Append(target_dir, filename), 0)
    /\ \A i \in 1..Len(audit_rows) :
         RunDecs[i].status = "Resolved" =>
           /\ audit_rows[i].Status = "OK"
           /\ Append(RowDir(audit_rows[i]), audit_rows[i].Filename) \in files
           /\ \E w \in 1..Len(written) :
                /\ written[w].page = i
                /\ written[w].path =
                     Append(RowDir(audit_rows[i]), audit_rows[i].Filename)
    /\ success = Cardinality({i \in 1..Len(audit_rows) :
                                RunDecs[i].status = "Resolved"})

\* a live run saved two pages that resolve to the same name in the same
\* directory
C4_Witness ==
  /\ Live
  /\ pc = "done"
  /\ Len(audit_rows) = 2
  /\ SameTarget(1, 2)
  /\ audit_rows[1].Filename # audit_rows[2].Filename
  /\ success = 2

\* how many of the candidates of base exist: the base name and its suffixed
\* variants
Sharing(base) ==
  Cardinality({k \in 0..(Cardinality(Exists) + 1) : PathCand(base, k) \in Exists})

Allocated == pc \in {"got_unique_path", "got_final_name"}

\* C5: get_unique_path returns a path that does not exist: the desired path
\* when it does not exist, otherwise stem_k.ext for the smallest k >= 1 for
\* which that does not exist.
C5_UniquePath ==
  pc = "got_unique_path" =>
    /\ unique_path \notin Exists
    /\ base_path \notin Exists => unique_path = base_path
    /\ base_path \in Exists => FirstFree(unique_path, base_path, 1)

\* get_unique_path was called on a path that exists and whose _1 variant
\* exists too
C5_Witness ==
  /\ pc = "got_unique_path"
  /\ base_path \in Exists
  /\ PathCand(base_path, 1) \in Exists
  /\ unique_path = PathCand(base_path, 2)

\* C6 as stated: with N existing files sharing the stem (the base name and
\* suffixed variants), allocation returns the name with suffix _N, and a
\* lower suffix left free by a gap is not reused.
C6_ReturnsSuffixN ==
  (Allocated /\ base_path \in Exists) =>
    unique_path = PathCand(base_path, Sharing(base_path))

\* C6 amended: when the N existing files sharing the stem are the base name
\* and the suffixes _1 .. _(N-1) without a gap, allocation returns the name
\* with suffix _N; when a suffix below N is free, allocation returns the
\* lowest free suffix, which is below N (gaps are reused).
C6_ReturnsLowestFreeSuffix ==
  (Allocated /\ base_path \in Exists) =>
    IF \A k \in 0..(Sharing(base_path) - 1) : PathCand(base_path, k) \in Exists
      THEN unique_path = PathCand(base_path, Sharing(base_path))
      ELSE \E g \in 1..(Sharing(base_path) - 1) :
             /\ unique_path = PathCand(base_path, g)
             /\ \A k \in 0..(g - 1) : PathCand(base_path, k) \in Exists

\* the loop of split_pdf_full probed a name that exists with its _2 variant
\* but without its _1 variant
C6_Witness ==
  /\ pc = "got_final_name"
  /\ base_path \in Exists
  /\ PathCand(base_path, 1) \notin Exists
  /\ PathCand(base_path, 2) \in Exists
  /\ unique_path = PathCand(base_path, 1)

\* C7: for a document without pages split_pdf_full returns the summary of
\* zeros with audit_path null at once, live or simulated, creating no
\* directory and writing no audit file.
C7_ZeroPages ==
  (InRun /\ pc # "open" /\ total_pages = 0 /\ error # "open") =>
    /\ pc = "done"
    /\ result = <<Summary(0, 0, 0, NoPath)>>
    /\ dirs = dirs0
    /\ files = files0
    /\ audit_rows = <<>>
    /\ RunDecs = <<>>

\* a live run on a document without pages has returned
C7_Witness ==
  /\ pc = "done"
  /\ ~safe_mode
  /\ total_pages = 0
  /\ result # <<>>

\* C8: in a live run a page n without a valid file name is saved once, as
\* Unmatched_Page_<n>.pdf in <out_dir>/!manual_review and nowhere else, has
\* one audit row with status Failed and an empty file name, and counts as
\* one manual review and no success, with or without folder routing.
C8_ManualReview ==
  Live =>
    /\ \A i \in 1..Len(audit_rows) :
         RunDecs[i].status = "Unresolvable" =>
           /\ audit_rows[i].Status = "Failed"
           /\ audit_rows[i].Filename = <<>>
           /\ \E w \in 1..Len(written) :
                /\ written[w].page = i
                /\ written[w].path =
                     out_dir \o <<ReviewName, UnmatchedPrefix \o IntStr(i) \o DotPdf>>
                /\ written[w].path \in files
                /\ \A v \in 1..Len(written) : written[v].page = i => v = w
    /\ pc # "raised" =>
         /\ failed = Cardinality({i \in 1..Len(audit_rows) :
                                    RunDecs[i].status = "Unresolvable"})
         /\ success = Cardinality({i \in 1..Len(audit_rows) :
                                     RunDecs[i].status = "Resolved"})

\* a live, folder-routed run sent its second page to manual review after
\* saving its first
C8_Witness ==
  /\ Live
  /\ pc = "done"
  /\ save_to_folders
  /\ Len(audit_rows) = 2
  /\ audit_rows[1].Status = "OK"
  /\ audit_rows[2].Status = "Failed"
  /\ failed = 1
  /\ success = 1

\* C9: in a live run the artifact of a Resolved page exists before its OK
\* row is appended and before it is counted; when saving it fails the error
\* leaves split_pdf_full: the page gets no row (not a Failed one either), no
\* summary is returned, no audit file is written, no later page is
\* processed, and the artifacts saved so far stay.
C9_SaveThenRecord ==
  Live =>
    /\ \A i \in 1..Len(audit_rows) :
         RunDecs[i].status = "Resolved" =>
           /\ audit_rows[i].Status = "OK"
           /\ \E w \in 1..Len(written) :
                /\ written[w].page = i
                /\ written[w].path \in files
                /\ written[w].path[Len(written[w].path)] = audit_rows[i].Filename
    /\ success <= Cardinality({w \in 1..Len(written) :
                                 RunDecs[written[w].page].status = "Resolved"})
    /\ pc = "saved" => out_path \in files /\ Len(audit_rows) = page_index
    /\ (pc = "raised" /\ error = "save") =>
         /\ result = <<>>
         /\ Len(audit_rows) = page_index
         /\ Len(RunDecs) = page_index + 1
         /\ \A f \in files \ files0 : ~IsAuditPath(f)
         /\ \A w \in 1..Len(written) : written[w].path \in files

\* C9, step part: once the error has left split_pdf_full nothing more of
\* that run happens.
C9_RaisedEndsRun == pc = "raised" => pc' = "open"

C9_SaveFailureIsFatal == []C9_SaveThenRecord /\ [][C9_RaisedEndsRun]_vars

\* the save of the second page failed after the first page was saved
C9_Witness ==
  /\ Live
  /\ pc = "raised"
  /\ error = "save"
  /\ page_index = 1
  /\ Len(written) = 1
  /\ audit_rows[1].Status = "OK"

\* C10: when writing the audit file fails after the last page of a live run,
\* split_pdf_full still returns the summary, with the right total, success
\* and manual-review counts and audit_path null, and every artifact saved
\* during the run stays.
C10_AuditFailureIsReported ==
  (Live /\ error = "audit") =>
    /\ pc = "done"
    /\ result = <<Summary(total_pages,
                          Cardinality({i \in 1..Len(RunDecs) :
                                         RunDecs[i].status = "Resolved"}),
                          Cardinality({i \in 1..Len(RunDecs) :
                                         RunDecs[i].status = "Unresolvable"}),
                          NoPath)>>
    /\ Len(written) = total_pages
    /\ \A w \in 1..Len(written) : written[w].path \in files

\* the audit file of a live run over a named and an unnamed page could not
\* be written
C10_Witness ==
  /\ Live
  /\ pc = "done"
  /\ error = "audit"
  /\ success = 1
  /\ failed = 1
  /\ Len(written) = 2

\* the lines of the page whose names are built on their own
NameLines == splitlines(doc[1])

\* the characters of text at the 1-based positions lo .. hi, both included
CharsAt(text, lo, hi) ==
  IF hi > Len(text) THEN SubSeq(text, lo, Len(text)) ELSE SubSeq(text, lo, hi)

\* C11 as stated: a token [LINE n(s/e)] resolves to the characters of line n
\* at the 1-based positions s up to but not including e, stripped of
\* surrounding white space; [LINE 0(3/5)] against "Hello World" gives "ll".
C11_TokenEndExclusive ==
  pc = "built" =>
    \A n \in 0..2, s \in 1..MaxPos, e \in 0..MaxPos :
      (folder_pattern = LineToken(n, s, e) /\ n < Len(NameLines)) =>
        raw_folder = Strip(CharsAt(NameLines[n + 1], s, e - 1))

\* C11, amended: a token [LINE n(s/e)] resolves to the characters of line n
\* (counted from 0) at the 1-based positions s up to and including e, cut at
\* the end of the line and stripped of surrounding white space; a start of 0
\* counts as 1, and a line number past the last line gives the empty string.
\* [LINE 0(3/5)] against "Hello World" gives "llo".
C11_TokenEndInclusive ==
  pc = "built" =>
    \A n \in 0..2, s \in 0..MaxPos, e \in 0..MaxPos :
      folder_pattern = LineToken(n, s, e) =>
        raw_folder = IF n < Len(NameLines)
                       THEN Strip(CharsAt(NameLines[n + 1], Max(s, 1), e))
                       ELSE <<>>

\* [LINE 0(3/5)] was resolved against the line "Hello World"
C11_Witness ==
  /\ pc = "built"
  /\ doc = <<PageHello>>
  /\ folder_pattern = LineToken(0, 3, 5)
  /\ raw_folder = <<"l","l","o">>

\* C12 as stated: [LINE 1][LINE 2]_[LINE 3].pdf against the lines "A", "B",
\* "C", ... gives the file name "AB_C.pdf": [LINE 1] is the line "A".
C12_LineOneIsFirst ==
  (pc = "built" /\ file_pattern = PatternLines123 /\ doc = <<PageABCD>>) =>
    filename = <<"A","B","_","C",".","p","d","f">>

\* C12, amended: the token [LINE k] selects the line at the 0-based index k,
\* so [LINE 0] is the line "A" and [LINE 1][LINE 2]_[LINE 3].pdf against the
\* lines "A", "B", "C", "D" gives the value and the file name "BC_D.pdf";
\* against the three lines "A", "B", "C" alone [LINE 3] is empty and the
\* file name is "BC_.pdf".
C12_LineZeroIsFirst ==
  pc = "built" =>
    /\ (file_pattern = PatternLines123 /\ doc = <<PageABCD>>) =>
         filename = <<"B","C","_","D",".","p","d","f">>
    /\ (folder_pattern = PatternLines123 /\ doc = <<PageABCD>>) =>
         raw_folder = <<"B","C","_","D",".","p","d","f">>
    /\ (file_pattern = PatternLines123 /\ doc = <<PageABC>>) =>
         filename = <<"B","C","_",".","p","d","f">>
    /\ (file_pattern = PatternLine0 /\ doc \in {<<PageABCD>>, <<PageABC>>}) =>
         filename = <<"A",".","p","d","f">>

\* both patterns [LINE 1][LINE 2]_[LINE 3].pdf resolved against "A".."D"
C12_Witness ==
  /\ pc = "built"
  /\ doc = <<PageABCD>>
  /\ file_pattern = PatternLines123
  /\ folder_pattern = PatternLines123
  /\ filename = <<"B","C","_","D",".","p","d","f">>

\* C13: the file-name transform is idempotent: applied to its own non-empty
\* result, it returns that result unchanged.
C13_SanitizerIdempotent ==
  [][(pc = "built" /\ pc' = "rebuilt") => filename' = filename]_vars

\* a character sanitize_filename lets through: a word character, a hyphen,
\* or white space other than the blank
Sanitized(c) == IsWord(c) \/ c = "-" \/ (IsSpace(c) /\ c # " ")

\* C14: a page classified Resolved has a sanitized file name that ends with
\* .pdf, in any case, after a non-empty stem; a page is Unresolvable exactly
\* when its file name is empty or is ".pdf".
C14_ResolvedEndsWithPdf ==
  pc = "built" =>
    /\ Decision(1, filename, foldername).status = "Resolved" =>
         /\ Len(filename) > Len(DotPdf)
         /\ EndsWith(LowerStr(filename), DotPdf)
         /\ \A i \in 1..(Len(filename) - Len(DotPdf)) : Sanitized(filename[i])
    /\ Decision(1, filename, foldername).status = "Unresolvable" <=>
         (filename = <<>> \/ filename = DotPdf)

\* C17: for a Resolved page, the record of a simulated run carries the path a
\* live run on the same document, patterns and output tree saves the page
\* under, collision suffix included.
C17_SafeReportsFinalPath ==
  (Live /\ files0 = {} /\ Len(reported[TRUE]) = total_pages) =>
    \A w \in 1..Len(written) :
      reported[TRUE][written[w].page].Status = "OK (SAFE mode)" =>
        written[w].path = Append(RowDir(reported[TRUE][written[w].page]),
                                 reported[TRUE][written[w].page].Filename)

\* the directory a path lies in
DirOf(path) == SubSeq(path, 1, Len(path) - 1)

\* the directory a decision routes its page to
RoutedDir(d) ==
  IF ~save_to_folders THEN out_dir
  ELSE IF d.foldername # <<>> THEN Append(out_dir, d.foldername)
  ELSE Append(out_dir, UnknownName)

\* C18: a Resolved page goes to out_dir/<normalized folder name> when folder
\* routing is on and the normalized name is not empty, to out_dir/unknown
\* when routing is on and it is empty (also when the raw folder value is not
\* empty but normalizes to nothing), and to out_dir when routing is off; a
\* live run saves the page in that directory, which exists by then.
C18_TargetDirectory ==
  Live =>
    /\ pc \in {"save", "saved"} =>
         /\ DirOf(out_path) = RoutedDir(RunDecs[page_no])
         /\ DirOf(out_path) \in dirs
    /\ \A w \in 1..Len(written) :
         RunDecs[written[w].page].status = "Resolved" =>
           /\ DirOf(written[w].path) = RoutedDir(RunDecs[written[w].page])
           /\ DirOf(written[w].path) \in dirs
           /\ written[w].path \in files
    /\ \A i \in 1..Len(audit_rows) :
         audit_rows[i].Status = "OK" =>
           /\ audit_rows[i].FolderName = RunDecs[i].foldername
           /\ \E w \in 1..Len(written) :
                /\ written[w].page = i
                /\ written[w].path =
                     Append(RoutedDir(RunDecs[i]), audit_rows[i].Filename)

\* a live run with folder routing has saved a page whose raw folder value is
\* not empty and normalizes to nothing, and a page with a folder name
C18_Witness ==
  /\ Live
  /\ pc = "done"
  /\ save_to_folders
  /\ Len(written) = 2
  /\ \E i \in 1..2 :
       /\ audit_rows[i].Status = "OK"
       /\ audit_rows[i].FolderRaw # <<>>
       /\ audit_rows[i].FolderName = <<>>
       /\ DirOf(written[i].path) = Append(out_dir, UnknownName)
  /\ \E i \in 1..2 :
       /\ audit_rows[i].Status = "OK"
       /\ audit_rows[i].FolderName # <<>>
       /\ DirOf(written[i].path) = Append(out_dir, audit_rows[i].FolderName)

\* C19 as stated: in a live run !manual_review is created lazily: unless it
\* existed before the run, it does not exist until the first Unresolvable
\* page is reached, and a live run whose pages are all Resolved never
\* creates it.
C19_ReviewDirLazy ==
  (Live /\ review_dir \in dirs /\ review_dir \notin dirs0) =>
    \E i \in 1..Len(RunDecs) : RunDecs[i].status = "Unresolvable"

\* C19 amended, state part: a live run over a document with pages has
\* !manual_review from its start, before the first page is read, whether or
\* not a page is Unresolvable; a run over no pages, a run that could not
\* open the document and a simulated run leave it as it was.
C19_ReviewDirFromStart ==
  InRun =>
    IF Live /\ total_pages # 0 /\ pc # "open" /\ error # "open"
      THEN review_dir \in dirs
      ELSE review_dir \in dirs <=> review_dir \in dirs0

\* C19 amended, step part: the directory is created by one step only, the one
\* that follows the opening of the document.
C19_ReviewDirOnce ==
  (review_dir \notin dirs /\ review_dir \in dirs') =>
    (pc = "open" /\ pc' = "loop" /\ ~safe_mode)

C19_ReviewDirEager == []C19_ReviewDirFromStart /\ [][C19_ReviewDirOnce]_vars

\* a live run whose two pages are both Resolved has created !manual_review
C19_Witness ==
  /\ Live
  /\ pc = "done"
  /\ total_pages = 2
  /\ \A i \in 1..2 : RunDecs[i].status = "Resolved"
  /\ Len(RunDecs) = 2
  /\ review_dir \in dirs
  /\ review_dir \notin dirs0

\* C20: in the summary of a run that returns, live or simulated, success is
\* the number of Resolved pages and failed the number of Unresolvable ones,
\* so success + failed = total; each time the loop is about to take a page,
\* success + failed is the number of pages processed so far.
C20_CountsMatchDecisions ==
  InRun =>
    /\ (pc = "done" /\ result # <<>>) =>
         /\ result[1].success =
              Cardinality({i \in 1..Len(RunDecs) : RunDecs[i].status = "Resolved"})
         /\ result[1].failed =
              Cardinality({i \in 1..Len(RunDecs) :
                             RunDecs[i].status = "Unresolvable"})
         /\ result[1].success + result[1].failed = result[1].total
    /\ pc = "loop" => success + failed = page_index

\* C15: extract_pages rejects invalid page arguments before any I/O: when it
\* raises for them, no output directory has been created and no file written.
C15_RejectsBeforeIO ==
  (pc = "raised" /\ error = "value") =>
    /\ dirs = dirs0
    /\ files = files0

\* the threads that have not returned yet
Running == {t \in 1..Len(workers) : workers[t].pc # "done"}

\* C16: at most one split run is in progress at any time, so that no two
\* runs interleave their exists-check and save on the output tree and no
\* page artifact of one run is overwritten by another run.
C16_OneRunAtATime ==
  /\ Cardinality(Running) <= 1
  /\ \A v, w \in 1..Len(written) :
       written[v].thread # written[w].thread =>
         written[v].path # written[w].path

\* C21: a live run, alone on the output tree, never overwrites a file: every
\* page artifact, of a Resolved page or an Unmatched_Page_<n>.pdf of the
\* review directory, and the audit file, goes to a path that did not exist
\* when it was written; no file present at the start of the run is replaced.
C21_NothingOverwritten ==
  Live =>
    /\ clobbered = {}
    /\ \A w \in 1..Len(written) : written[w].path \notin files0

====
